---- MODULE Spec2Model ----
(***************************************************************************)
(* Model of the eva voice-activity detector: the driver loop of            *)
(* src/src/main.cpp (hysteresis counters, segment state, transcription     *)
(* sink calls), the level meter of src/src/utils.cpp, the capture source   *)
(* of src/src/audio_capture.cpp (CoreAudio queue backend and ALSA          *)
(* backend) and the sink of src/src/transcriber.cpp.                       *)
(*                                                                         *)
(* Levels are in thousandths of a dB (milli-dBFS), so -35.0f is -35000.    *)
(***************************************************************************)
EXTENDS Integers, Sequences, FiniteSets, TLC

\* ------------------------------------------------------------------ bounds
\* Largest number of frames the CoreAudio callback may leave unread in
\* pending_ (the deque itself is unbounded).
MaxPending == 2

\* Cap of the history counter of frames processed after the interrupt.
MaxAfterInt == 3

\* Longest unbroken run of speech-like frames whose positions are counted.
MaxRun == 20

\* Longest frame on which the level meter is exercised.
MaxMeterLen == 5

\* Longest sequence of feed/flush calls in the exercise of the sink.
MaxCalls == 5

\* --------------------------------------------------------------- constants
trigger_dbfs == -35000
trigger_frames == 10
release_frames == 20
cfg_frames_per_buffer == 512
channels == 1

\* Period sizes snd_pcm_hw_params_set_period_size_near may grant for the one
\* requested.
GrantedPeriods == {cfg_frames_per_buffer \div 2, cfg_frames_per_buffer}

\* ------------------------------------------------------------ frame inputs
\* The frames the capture device hands over.  Their levels, computed by the
\* repository's dbfs(): LoudFrame -19.999 dBFS, QuietFrame -39.992 dBFS,
\* ThresholdFrame exactly -35.0 dBFS, EmptyFrame (no samples) -270.309 dBFS.
LoudFrame == <<3277>>
QuietFrame == <<328>>
ThresholdFrame == <<281, 653, 653, 653>>
EmptyFrame == <<>>

Frames == {LoudFrame, QuietFrame, ThresholdFrame}

\* Frames on which the level meter is exercised: the ones above and every
\* frame of full-scale and zero samples up to MaxMeterLen samples.
MeterSamples == {-32768, 0}
MeterFrames ==
    Frames \cup UNION {[1..n -> MeterSamples] : n \in 0..MaxMeterLen}

\* Texts the recognizer can return for a segment that holds audio.
Texts == {"", "hello"}

VARIABLES
    platform,               \* "apple" or "linux": the backend compiled in
    frames_per_buffer,      \* Impl::cfg_.frames_per_buffer
    pc,                     \* position of main()
    g_running,              \* main.cpp g_running
    running_,               \* CoreAudio Impl::running_
    queue_started,          \* AudioQueueStart has succeeded: callbacks arrive
    pending_,               \* CoreAudio Impl::pending_
    inCallback,             \* audio_callback has found running_ true (line 84)
                            \* and has not yet returned
    transcription_enabled,  \* main.cpp transcription_enabled
    hot, hold,              \* main.cpp hysteresis counters
    segment_active,
    segment_has_audio,
    recognizer,             \* audio held by the sink since its last reset
    ev,                     \* what the last pass through the loop body did
    firstRun,               \* history: length of the all-speech-like prefix
    quiet,                  \* history: non-speech-like frames since a firing
    everFired,              \* history: SpeechDetected has fired at least once
    afterInt,               \* history: frames processed after the interrupt
    fedSinceFlush,          \* history: feed() was called after the last flush()
    runLen,                 \* history: position of the last frame in its
                            \* unbroken run of speech-like frames (0: not
                            \* speech-like, -1: beyond MaxRun)
    intInRead,              \* history: the interrupt found main blocked in read()
    pendingAge,             \* history: for each frame in pending_, how many
                            \* frames the callback has queued after it
    dropped,                \* history: the callback discarded a non-empty buffer
    ready,                  \* the Transcriber exists and its Impl::ready is true
    calls,                  \* sink exercise: the feed/flush calls made so far
    startFailed,            \* history: capture.start() threw
    sinkBuilt,              \* history: the Transcriber constructor was called
    exit_code,              \* value returned by main (-1 while it runs)
    buffer,                 \* main.cpp buffer: the samples of the last read()
    nread,                  \* the value the last capture.read(buffer) returned
    meterIn,                \* meter exercise: the frame handed to the meter
    meterOut                \* meter exercise: what rms() and dbfs() returned

vars == <<platform, frames_per_buffer,
          pc, g_running, running_, queue_started, pending_,
          inCallback,
          transcription_enabled, hot, hold, segment_active, segment_has_audio,
          recognizer, ev, firstRun, quiet, everFired, afterInt, runLen,
          fedSinceFlush,
          intInRead, pendingAge, dropped, ready, calls,
          startFailed, sinkBuilt, exit_code, buffer, nread, meterIn,
          meterOut>>

capture == <<running_, queue_started, pending_, inCallback>>
machine == <<hot, hold, segment_active, segment_has_audio>>
frameHistory == <<ev, firstRun, quiet, everFired, afterInt, runLen,
                  fedSinceFlush>>
captureHistory == <<pendingAge, dropped>>
history == <<frameHistory, intInRead, captureHistory, calls>>
lifecycle == <<startFailed, sinkBuilt, exit_code>>
meter == <<meterIn, meterOut>>
readResult == <<buffer, nread>>

\* ------------------------------------------------------------- level meter
\* rms() accumulates the squares in a double, which holds every sum of
\* squares of 16-bit samples exactly.  The model keeps the sum as
\* hi * AccBase + lo, so that it stays exact where a 32-bit integer would
\* overflow (two samples of -32768 already sum to 2^31).
AccBase == 2^15
FullSq == 2^30

AccNorm(h, l) == [hi |-> h + l \div AccBase, lo |-> l % AccBase]
AccOfInt(v) == AccNorm(0, v)
AccPlus(a, b) == AccNorm(a.hi + b.hi, a.lo + b.lo)
AccTimes(a, k) == AccNorm(a.hi * k, a.lo * k)

\* utils.cpp lines 7-10: acc += sample * sample
RECURSIVE SumSq(_)
SumSq(x) ==
    IF x = <<>> THEN AccOfInt(0)
    ELSE AccPlus(AccOfInt(Head(x) * Head(x)), SumSq(Tail(x)))

\* utils.cpp line 11: mean = acc / n is exactly num / den
MeanIs(acc, n, num, den) ==
    AccTimes(acc, den) = AccTimes(AccOfInt(num), n)

\* mean = acc / n is exactly k/d of the square of full scale
MeanIsFull(acc, n, k, d) ==
    AccTimes(acc, d) = AccTimes(AccOfInt(FullSq), k * n)

\* utils.cpp lines 5-13: rms(), in thousandths.  The square root is
\* tabulated for the means the model's frames produce, with the float
\* values utils.cpp returns for them.
rms(x) ==
    IF x = <<>> THEN 0
    ELSE LET acc == SumSq(x)
             n == Len(x)
         IN
         CASE MeanIs(acc, n, 0, 1) -> 0
         [] MeanIs(acc, n, 107584, 1) -> 328000
         [] MeanIs(acc, n, 339547, 1) -> 582707
         [] MeanIs(acc, n, 10738729, 1) -> 3277000
         [] MeanIsFull(acc, n, 1, 6) -> 13377480
         [] MeanIsFull(acc, n, 1, 5) -> 14654295
         [] MeanIsFull(acc, n, 1, 4) -> 16384000
         [] MeanIsFull(acc, n, 1, 3) -> 18918613
         [] MeanIsFull(acc, n, 2, 5) -> 20724303
         [] MeanIsFull(acc, n, 1, 2) -> 23170475
         [] MeanIsFull(acc, n, 3, 5) -> 25381984
         [] MeanIsFull(acc, n, 2, 3) -> 26754961
         [] MeanIsFull(acc, n, 3, 4) -> 28377920
         [] MeanIsFull(acc, n, 4, 5) -> 29308590
         [] MeanIsFull(acc, n, 5, 6) -> 29912955
         [] MeanIsFull(acc, n, 1, 1) -> 32768000

\* utils.cpp line 18: 20 * log10((r + 1e-9f) / ref) in milli-dB, tabulated
\* for the values of r above with the float values utils.cpp returns (r =
\* 582.707 gives -35.0f exactly; r = 0 gives 20*log10(1e-9/32768)).
Level(r) ==
    CASE r = 0 -> -270309
      [] r = 328000 -> -39992
      [] r = 582707 -> -35000
      [] r = 3277000 -> -19999
      [] r = 13377480 -> -7782
      [] r = 14654295 -> -6990
      [] r = 16384000 -> -6021
      [] r = 18918613 -> -4771
      [] r = 20724303 -> -3979
      [] r = 23170475 -> -3010
      [] r = 25381984 -> -2218
      [] r = 26754961 -> -1761
      [] r = 28377920 -> -1249
      [] r = 29308590 -> -969
      [] r = 29912955 -> -792
      [] r = 32768000 -> 0

\* utils.cpp lines 15-19; without the 1e-9 the level of silence would be
\* log10(0), minus infinity
MinusInfinity == -2^30
dbfsOf ==
    [x \in MeterFrames |-> LET r == rms(x) IN Level(r)]
dbfsNoEpsilon(x) ==
    LET r == rms(x) IN IF r = 0 THEN MinusInfinity ELSE Level(r)
dbfs(x) == dbfsOf[x]

speech_likeGE(x) == dbfs(x) >= trigger_dbfs
speech_like(x) == dbfs(x) > trigger_dbfs

\* ------------------------------------------------- per-frame state machine
\* line 74: SpeechDetected fires when the incremented hot reaches the trigger
FiresLate(h, sl) == sl /\ h + 1 > trigger_frames
Fires(h, sl) == sl /\ h + 1 >= trigger_frames

\* lines 72-81: hot after the frame
HotStepSticky(h, sl) == IF sl THEN h + 1 ELSE 0
HotStep(h, sl) == IF sl THEN (IF Fires(h, sl) THEN 0 ELSE h + 1) ELSE 0

\* line 75: hold re-armed on a firing
HoldArmLong(hd, fires) == IF fires THEN release_frames + 1 ELSE hd
HoldArm(hd, fires) == IF fires THEN release_frames ELSE hd

\* lines 83-85
HoldDecAboveOne(hd) == IF hd > 1 THEN hd - 1 ELSE hd
HoldDec(hd) == IF hd > 0 THEN hd - 1 ELSE hd

\* line 87
FeedsAlways(sl, hd, en) == sl \/ hd > 0
Feeds(sl, hd, en) == (sl \/ hd > 0) /\ en

\* lines 88-89: the segment flags after the feed branch
ActiveAfterFeed(feeds, act) == feeds \/ act
HasAudioAfterFeedKeep(feeds, has) == has
HasAudioAfterFeed(feeds, has) == feeds \/ has

\* line 93
ClosesLoose(sl, hd, act) == hd = 0 /\ act
Closes(sl, hd, act) == ~sl /\ hd = 0 /\ act

\* line 95
Flushes(en, has) == en /\ has

\* lines 97-101: the result line printed for a flushed text
ResultEventDrop(text) == IF text # "" THEN "text" ELSE "none"
ResultEvent(text) == IF text # "" THEN "text" ELSE "nospeech"

\* line 67: a zero-length read skips the rest of the body
SkipsNever(n) == FALSE
Skips(n) == n = 0

\* lines 32-34: where main goes when capture.start() throws
AfterStartFailureGoOn == "sink"
AfterStartFailure == "exit1"

\* line 34 and line 108: the values main returns
StartFailureCode == 1
CleanExitCode == 0

\* line 66: the loop condition
LoopContinuesAlways(g) == TRUE
LoopContinues(g) == g

\* ---------------------------------------------------------- capture queue
\* audio_callback: pending_.push_back
PushFront(q, x) == <<x>> \o q
PushBack(q, x) == Append(q, x)

\* read(): pending_.front() and pending_.pop_front()
Front(q) == Head(q)
PopFront(q) == Tail(q)

\* history: one more frame has been queued after each of the frames in q
Older(q) == [i \in 1..Len(q) |-> q[i] + 1]

\* ------------------------------------------------------ transcription sink
\* Transcriber::feed: the recognizer accumulates the samples.
feedDrop(r) == r
feed(r) == "audio"

\* The speech engine's final result, which is not part of the sources: by
\* the sink contract it transcribes what was fed since the last flush or
\* reset, so it carries a text only when audio was fed.
vosk_recognizer_final_result(r) == IF r = "audio" THEN Texts ELSE {""}

\* Transcriber::flush, lines 71-74: the text field of the final result
flushTexts(r) == vosk_recognizer_final_result(r)

\* Transcriber::flush: vosk_recognizer_reset after the final result
flushResetKeep(r) == r
flushReset(r) == "empty"

\* Transcriber::feed, Transcriber::flush on a sink that may be unavailable
TranscriberFeed(rdy, r) == IF rdy THEN feed(r) ELSE r
TranscriberFlushTexts(rdy, r) == IF rdy THEN flushTexts(r) ELSE {""}
TranscriberFlushState(rdy, r) == IF rdy THEN flushReset(r) ELSE r

\* ev: n is the sample count read() returned (-1 before the first read),
\* level the frame's dbfs, fired whether SpeechDetected was printed, armed the
\* value of hold right after lines 72-81, fed/flushed whether feed()/flush()
\* were called, closed whether the segment went from Active to Idle, text the
\* text flush() returned and result the transcription line printed.
NoEvent == [n |-> -1, level |-> 0, fired |-> FALSE, armed |-> 0, fed |-> FALSE,
            closed |-> FALSE, flushed |-> FALSE, text |-> "", result |-> "none"]

\* What the meter exercise records: rms() in thousandths, dbfs() in
\* milli-dB, and the driver's speech-like test of line 70.
NoMeasure == [rms |-> -1, level |-> 0, speech |-> FALSE]

\* -------------------------------------------------------------------- Init
Init ==
    /\ platform \in {"apple", "linux"}
    /\ frames_per_buffer = cfg_frames_per_buffer
    /\ pc = "start"
    /\ g_running = TRUE
    /\ running_ = FALSE
    /\ queue_started = FALSE
    /\ pending_ = <<>>
    /\ inCallback = FALSE
    /\ transcription_enabled = TRUE
    /\ hot = 0
    /\ hold = 0
    /\ segment_active = FALSE
    /\ segment_has_audio = FALSE
    /\ recognizer = "empty"
    /\ ev = NoEvent
    /\ firstRun = 0
    /\ quiet = -1
    /\ everFired = FALSE
    /\ afterInt = 0
    /\ runLen = 0
    /\ fedSinceFlush = FALSE
    /\ intInRead = FALSE
    /\ pendingAge = <<>>
    /\ dropped = FALSE
    /\ ready = FALSE
    /\ calls = <<>>
    /\ startFailed = FALSE
    /\ sinkBuilt = FALSE
    /\ exit_code = -1
    /\ buffer = EmptyFrame
    /\ nread = 0
    /\ meterIn = EmptyFrame
    /\ meterOut = NoMeasure

\* ----------------------------------------------------------------- actions
\* handle_sigint
Sigint ==
    /\ pc \notin {"done", "exit1", "aborted"}
    /\ g_running' = FALSE
    /\ intInRead' = (intInRead \/ (g_running /\ platform = "apple"
                                    /\ pc = "read" /\ pending_ = <<>>))
    /\ UNCHANGED <<platform, frames_per_buffer,
                   pc, capture, transcription_enabled, machine,
                   recognizer, frameHistory, captureHistory, ready, calls,
                   lifecycle,
                   meter,
                   readResult>>

\* capture.start() throws: main returns 1.  The ALSA start() throws either
\* before line 331, with the requested period still in cfg_, or after it
\* (lines 336 and 341), with the granted period already stored.
StartFail ==
    /\ pc = "start"
    /\ pc' = AfterStartFailure
    /\ startFailed' = TRUE
    /\ exit_code' = IF pc' = "exit1" THEN StartFailureCode ELSE exit_code
    /\ frames_per_buffer' \in
           IF platform = "linux"
           THEN {frames_per_buffer} \cup GrantedPeriods
           ELSE {frames_per_buffer}
    /\ UNCHANGED sinkBuilt
    /\ UNCHANGED <<platform,
                   g_running, capture, transcription_enabled,
                   machine, recognizer, history, ready,
                   meter,
                   readResult>>

\* CoreAudio start(), up to and including AudioQueueStart
AppleQueueStart ==
    /\ platform = "apple"
    /\ pc = "start"
    /\ queue_started' = TRUE
    /\ pc' = "start_running"
    /\ UNCHANGED <<platform, frames_per_buffer, g_running, running_, pending_,
                   transcription_enabled, machine, recognizer, history,
                   ready,
                   lifecycle,
                   meter,
                   readResult,
                   inCallback>>

\* CoreAudio start(), running_ = true
AppleSetRunning ==
    /\ pc = "start_running"
    /\ running_' = TRUE
    /\ pc' = "sink"
    /\ UNCHANGED <<platform, frames_per_buffer,
                   g_running, queue_started, pending_,
                   transcription_enabled, machine, recognizer, history,
                   ready,
                   lifecycle,
                   meter,
                   readResult,
                   inCallback>>

\* ALSA start(): line 331 replaces the requested period by the granted one
LinuxStart ==
    /\ platform = "linux"
    /\ pc = "start"
    /\ frames_per_buffer' \in GrantedPeriods
    /\ pc' = "sink"
    /\ UNCHANGED <<platform, g_running, capture, transcription_enabled,
                   machine, recognizer, history, ready,
                   lifecycle,
                   meter,
                   readResult>>

\* CoreAudio audio_callback, on the audio subsystem's thread, up to its test
\* of running_ (line 84, read without the mutex): a buffer that finds
\* running_ false is handed back to the queue and lost.
AudioCallback ==
    /\ queue_started
    /\ ~inCallback
    /\ pc \notin {"done", "exit1", "aborted"}
    /\ IF ~running_
       THEN /\ \E buf \in Frames \cup {EmptyFrame} :
                  dropped' = (dropped \/ Len(buf) > 0)
            /\ UNCHANGED inCallback
       ELSE /\ Len(pending_) < MaxPending
            /\ inCallback' = TRUE
            /\ UNCHANGED dropped
    /\ UNCHANGED <<platform, frames_per_buffer,
                   pc, g_running, running_, queue_started,
                   pending_, pendingAge,
                   transcription_enabled, machine, recognizer, frameHistory,
                   intInRead, ready, calls,
                   lifecycle,
                   meter,
                   readResult>>

\* audio_callback, lines 88-100: the samples are copied and pushed under the
\* mutex, whatever running_ has become since the test of line 84.
AudioCallbackPush ==
    /\ inCallback
    /\ pc # "aborted"
    /\ \E buf \in Frames \cup {EmptyFrame} :
          IF Len(buf) > 0
          THEN /\ pending_' = PushBack(pending_, buf)
               /\ pendingAge' = PushBack(Older(pendingAge), 0)
          ELSE UNCHANGED <<pending_, pendingAge>>
    /\ inCallback' = FALSE
    /\ UNCHANGED <<platform, frames_per_buffer,
                   pc, g_running, running_, queue_started,
                   transcription_enabled, machine, recognizer, frameHistory,
                   intInRead, dropped, ready, calls, lifecycle,
                   meter, readResult>>


\* construction of the Transcriber and the once-only enabled decision
InitSink ==
    /\ pc = "sink"
    /\ \E ok \in BOOLEAN : ready' = ok /\ transcription_enabled' = ok
    /\ sinkBuilt' = TRUE
    /\ pc' = "loop"
    /\ UNCHANGED <<startFailed, exit_code>>
    /\ UNCHANGED <<platform, frames_per_buffer,
                   g_running, capture, machine, recognizer, history,
                   meter,
                   readResult>>

\* while (g_running)
LoopCheck ==
    /\ pc = "loop"
    /\ pc' = IF LoopContinues(g_running) THEN "read" ELSE "teardown"
    /\ UNCHANGED lifecycle
    /\ UNCHANGED <<platform, frames_per_buffer,
                   g_running, capture, transcription_enabled,
                   machine, recognizer, history, ready,
                   meter,
                   readResult>>

\* The loop body for the frame x that read() returned.
Body(x) ==
    IF Skips(nread)
    THEN /\ ev' = [NoEvent EXCEPT !.n = nread]
         /\ UNCHANGED <<machine, recognizer, firstRun, quiet, everFired,
                        afterInt, runLen, fedSinceFlush>>
    ELSE
      LET sl == speech_like(x)
          fires == Fires(hot, sl)
          hold1 == HoldArm(hold, fires)
          hold2 == HoldDec(hold1)
          feeds == Feeds(sl, hold2, transcription_enabled)
          act1 == ActiveAfterFeed(feeds, segment_active)
          has1 == HasAudioAfterFeed(feeds, segment_has_audio)
          rec1 == IF feeds THEN TranscriberFeed(ready, recognizer)
                           ELSE recognizer
          closes == Closes(sl, hold2, act1)
          flushes == closes /\ Flushes(transcription_enabled, has1)
      IN  /\ hot' = HotStep(hot, sl)
          /\ hold' = hold2
          /\ segment_active' = IF closes THEN FALSE ELSE act1
          /\ segment_has_audio' = IF closes THEN FALSE ELSE has1
          /\ recognizer' = IF flushes THEN TranscriberFlushState(ready, rec1)
                                       ELSE rec1
          /\ \E text \in (IF flushes THEN TranscriberFlushTexts(ready, rec1)
                                      ELSE {""}) :
                ev' = [n |-> nread, level |-> dbfs(x), fired |-> fires,
                       armed |-> hold1, fed |-> feeds, closed |-> closes,
                       flushed |-> flushes, text |-> text,
                       result |-> IF flushes THEN ResultEvent(text) ELSE "none"]
          /\ firstRun' = IF firstRun >= 0 /\ firstRun < trigger_frames /\ sl
                         THEN firstRun + 1 ELSE -1
          /\ quiet' = IF fires THEN 0
                      ELSE IF sl \/ quiet < 0 \/ quiet > release_frames
                           THEN -1 ELSE quiet + 1
          /\ everFired' = (everFired \/ fires)
          /\ afterInt' = IF g_running \/ afterInt >= MaxAfterInt
                         THEN afterInt ELSE afterInt + 1
          /\ fedSinceFlush' = IF flushes THEN FALSE
                              ELSE (feeds \/ fedSinceFlush)
          /\ runLen' = IF ~sl THEN 0
                       ELSE IF runLen < 0 \/ runLen >= MaxRun THEN -1
                            ELSE runLen + 1

\* CoreAudio read(): waits for a frame (or for running_ to be cleared), takes
\* the front of pending_ and releases the mutex; the loop body runs later.
ReadApple ==
    /\ platform = "apple"
    /\ pc = "read"
    /\ pending_ # <<>> \/ ~running_
    /\ IF ~running_ /\ pending_ = <<>>
       THEN /\ nread' = 0
            /\ UNCHANGED <<buffer, pending_, pendingAge>>
       ELSE /\ buffer' = Front(pending_)
            /\ nread' = Len(Front(pending_))
            /\ pending_' = PopFront(pending_)
            /\ pendingAge' = PopFront(pendingAge)
    /\ pc' = "body"
    /\ UNCHANGED <<platform, frames_per_buffer,
                   g_running, running_, queue_started,
                   transcription_enabled, machine, recognizer, frameHistory,
                   intInRead, dropped, ready, calls, lifecycle,
                   meter,
                   inCallback>>

\* ALSA read() returning samples, or clearing the buffer and returning 0
ReadLinux ==
    /\ platform = "linux"
    /\ pc = "read"
    /\ \E x \in Frames \cup {EmptyFrame} :
          /\ buffer' = x
          /\ nread' = Len(x)
    /\ pc' = "body"
    /\ UNCHANGED <<platform, frames_per_buffer,
                   g_running, capture, transcription_enabled,
                   machine, recognizer, history, ready, lifecycle, meter>>

\* ALSA read(), line 350: out.resize(frames_per_buffer * channels) keeps the
\* samples that fit and fills the rest with zeros.
Resized(x, n) == [i \in 1..n |-> IF i <= Len(x) THEN x[i] ELSE 0]

\* ALSA read() throwing after it has resized the buffer: nothing in main
\* catches it
ReadLinuxThrow ==
    /\ platform = "linux"
    /\ pc = "read"
    /\ buffer' = Resized(buffer, frames_per_buffer * channels)
    /\ pc' = "aborted"
    /\ UNCHANGED <<platform, frames_per_buffer,
                   g_running, capture, transcription_enabled,
                   machine, recognizer, history, ready,
                   lifecycle,
                   meter,
                   nread>>

\* main.cpp lines 67-104 on the frame read() left in buffer
LoopBody ==
    /\ pc = "body"
    /\ Body(buffer)
    /\ pc' = "loop"
    /\ UNCHANGED <<platform, frames_per_buffer,
                   g_running, capture, transcription_enabled,
                   intInRead, captureHistory, ready, calls, lifecycle,
                   meter, readResult>>

\* ~Impl of the CoreAudio backend, when main returns after the loop:
\* running_ = false under the mutex
AppleStopRunning ==
    /\ platform = "apple"
    /\ pc = "teardown"
    /\ running_' = FALSE
    /\ pc' = "teardown_queue"
    /\ UNCHANGED <<platform, frames_per_buffer,
                   g_running, queue_started, pending_,
                   transcription_enabled, machine, recognizer, history,
                   ready, lifecycle, meter, readResult,
                   inCallback>>

\* ~Impl of the CoreAudio backend: AudioQueueStop and AudioQueueDispose
\* (both immediate and synchronous: they return once the callback in flight
\* has returned), then the members, pending_ among them, are destroyed; main
\* has returned 0
AppleQueueStop ==
    /\ pc = "teardown_queue"
    /\ ~inCallback
    /\ queue_started' = FALSE
    /\ pending_' = <<>>
    /\ pendingAge' = <<>>
    /\ pc' = "done"
    /\ exit_code' = CleanExitCode
    /\ UNCHANGED <<startFailed, sinkBuilt>>
    /\ UNCHANGED <<platform, frames_per_buffer,
                   g_running, running_, transcription_enabled,
                   machine, recognizer, frameHistory, intInRead,
                   dropped, calls, ready, meter, readResult,
                   inCallback>>

\* ~Impl of the ALSA backend; main has returned 0
LinuxStop ==
    /\ platform = "linux"
    /\ pc = "teardown"
    /\ pc' = "done"
    /\ exit_code' = CleanExitCode
    /\ UNCHANGED <<startFailed, sinkBuilt>>
    /\ UNCHANGED <<platform, frames_per_buffer,
                   g_running, capture, transcription_enabled,
                   machine, recognizer, history, ready, meter, readResult>>

Next ==
    \/ Sigint
    \/ StartFail
    \/ AppleQueueStart
    \/ AppleSetRunning
    \/ LinuxStart
    \/ AudioCallback
    \/ AudioCallbackPush
    \/ InitSink
    \/ LoopCheck
    \/ ReadApple
    \/ ReadLinux
    \/ ReadLinuxThrow
    \/ LoopBody
    \/ AppleStopRunning
    \/ AppleQueueStop
    \/ LinuxStop

Spec == Init /\ [][Next]_vars

\* ------------------------------------------------- exercise of the sink
\* A Transcriber, available or not, driven by arbitrary feed/flush calls.
SinkInit ==
    /\ platform \in {"apple", "linux"}
    /\ frames_per_buffer = cfg_frames_per_buffer
    /\ pc = "sink_calls"
    /\ g_running = TRUE
    /\ running_ = FALSE
    /\ queue_started = FALSE
    /\ pending_ = <<>>
    /\ inCallback = FALSE
    /\ transcription_enabled = TRUE
    /\ hot = 0
    /\ hold = 0
    /\ segment_active = FALSE
    /\ segment_has_audio = FALSE
    /\ recognizer = "empty"
    /\ ev = NoEvent
    /\ firstRun = 0
    /\ quiet = -1
    /\ everFired = FALSE
    /\ afterInt = 0
    /\ runLen = 0
    /\ fedSinceFlush = FALSE
    /\ intInRead = FALSE
    /\ pendingAge = <<>>
    /\ dropped = FALSE
    /\ ready \in BOOLEAN
    /\ calls = <<>>
    /\ startFailed = FALSE
    /\ sinkBuilt = FALSE
    /\ exit_code = -1
    /\ buffer = EmptyFrame
    /\ nread = 0
    /\ meterIn = EmptyFrame
    /\ meterOut = NoMeasure

sinkFixed == <<platform, frames_per_buffer,
               pc, g_running, capture, transcription_enabled,
               machine, frameHistory, intInRead, captureHistory, ready,
               lifecycle, meter, readResult>>

\* Transcriber::feed
SinkFeed ==
    /\ pc = "sink_calls"
    /\ Len(calls) < MaxCalls
    /\ recognizer' = TranscriberFeed(ready, recognizer)
    /\ calls' = Append(calls, [op |-> "feed", text |-> ""])
    /\ UNCHANGED sinkFixed

\* Transcriber::flush
SinkFlush ==
    /\ pc = "sink_calls"
    /\ Len(calls) < MaxCalls
    /\ \E text \in TranscriberFlushTexts(ready, recognizer) :
          calls' = Append(calls, [op |-> "flush", text |-> text])
    /\ recognizer' = TranscriberFlushState(ready, recognizer)
    /\ UNCHANGED sinkFixed

SinkNext ==
    \/ SinkFeed
    \/ SinkFlush

SpecSink == SinkInit /\ [][SinkNext]_vars

\* ------------------------------------------------- exercise of the meter
\* rms() and dbfs() are pure functions of the frame: one frame is drawn and
\* measured the way lines 69-70 of main measure it.
MeterInit ==
    /\ platform \in {"apple", "linux"}
    /\ frames_per_buffer = cfg_frames_per_buffer
    /\ pc = "meter"
    /\ g_running = TRUE
    /\ running_ = FALSE
    /\ queue_started = FALSE
    /\ pending_ = <<>>
    /\ inCallback = FALSE
    /\ transcription_enabled = TRUE
    /\ hot = 0
    /\ hold = 0
    /\ segment_active = FALSE
    /\ segment_has_audio = FALSE
    /\ recognizer = "empty"
    /\ ev = NoEvent
    /\ firstRun = 0
    /\ quiet = -1
    /\ everFired = FALSE
    /\ afterInt = 0
    /\ runLen = 0
    /\ fedSinceFlush = FALSE
    /\ intInRead = FALSE
    /\ pendingAge = <<>>
    /\ dropped = FALSE
    /\ ready = FALSE
    /\ calls = <<>>
    /\ startFailed = FALSE
    /\ sinkBuilt = FALSE
    /\ exit_code = -1
    /\ buffer = EmptyFrame
    /\ nread = 0
    /\ meterIn \in MeterFrames
    /\ meterOut = NoMeasure

Measure ==
    /\ pc = "meter"
    /\ meterOut' = [rms |-> rms(meterIn), level |-> dbfs(meterIn),
                    speech |-> speech_like(meterIn)]
    /\ pc' = "measured"
    /\ UNCHANGED <<platform, frames_per_buffer,
                   g_running, capture, transcription_enabled,
                   machine, recognizer, history, ready, lifecycle, meterIn,
                   readResult>>

MeterNext == Measure

SpecMeter == MeterInit /\ [][MeterNext]_vars

TypeOK ==
    /\ hot \in 0..(trigger_frames - 1)
    /\ hold \in 0..release_frames
    /\ Len(pending_) <= MaxPending

\* ------------------------------------------------------------------ claims
FrameStep == pc = "body" /\ pc' = "loop"
ReadStep == pc = "read" /\ pc' = "body"
Exited == pc \in {"teardown", "teardown_queue", "done"}

\* C1 (as stated): with the sink enabled, after a firing followed only by
\* non-speech-like frames, the segment closes (and flushes) on the 20th such
\* frame and on no earlier one.
C1_ClosesOnTwentieth ==
    (transcription_enabled /\ ev.n > 0 /\ quiet \in 1..release_frames)
        => (ev.closed <=> quiet = release_frames)

\* C1 (amended): with the sink enabled, after a firing followed only by
\* non-speech-like frames, the segment is Active after each of the first
\* release_frames - 2 (18) such frames and closes, with one flush, on frame
\* release_frames - 1 (the 19th); it is Idle from then on.
C1_ClosesOnNineteenth ==
    (transcription_enabled /\ ev.n > 0 /\ quiet \in 0..release_frames)
        => /\ ev.closed <=> quiet = release_frames - 1
           /\ ev.flushed <=> quiet = release_frames - 1
           /\ segment_active <=> quiet < release_frames - 1
           /\ hold = IF quiet < release_frames - 1
                     THEN release_frames - 1 - quiet ELSE 0

C1_Witness ==
    /\ transcription_enabled
    /\ quiet = release_frames - 1
    /\ ev.closed /\ ev.flushed /\ ~segment_active

\* C2: from the initial state, a run of speech-like frames fires
\* SpeechDetected on the 10th frame and on none of the first 9; the firing
\* sets hold to release_frames and hot to 0, and the frame ends with hold 19.
C2_FiresOnTenth ==
    (ev.n > 0 /\ firstRun \in 1..trigger_frames)
        => /\ ev.fired <=> firstRun = trigger_frames
           /\ firstRun < trigger_frames => (hot = firstRun /\ hold = 0)
           /\ firstRun = trigger_frames =>
                 /\ ev.armed = release_frames
                 /\ hot = 0
                 /\ hold = release_frames - 1

C2_Witness ==
    firstRun = trigger_frames /\ ev.fired /\ ev.armed = release_frames

\* C3: after a non-empty frame whose level is at or below the threshold, hot
\* is 0 and SpeechDetected did not fire on it.
C3_QuietResetsHot ==
    (ev.n > 0 /\ ev.level <= trigger_dbfs) => (hot = 0 /\ ~ev.fired)

C3_Witness ==
    ev.n > 0 /\ ev.level = trigger_dbfs /\ hot = 0 /\ firstRun = -1 /\ hold > 0

\* C4 (as stated): until SpeechDetected has fired, no segment is open, no
\* frame is fed to the sink and no transcription result is printed.
C4_OpensOnlyAfterOnset ==
    ~everFired => (~segment_active /\ ~ev.fed /\ ev.result = "none")

\* C5: with the sink enabled, a frame that takes the segment from Active to
\* Idle calls flush once and prints one result line, the text when it is not
\* empty and "no speech recognised" when it is; no other frame prints a
\* result.
C5_OneResultPerClose ==
    transcription_enabled =>
        /\ ev.closed => (ev.flushed /\ ev.result \in {"text", "nospeech"})
        /\ ev.closed => (ev.result = "text" <=> ev.text # "")
        /\ ~ev.closed => (~ev.flushed /\ ev.result = "none")

C5_Witness ==
    transcription_enabled /\ ev.closed /\ ev.text = "" /\ ev.result = "nospeech"

\* C6: a read() that returns no samples leaves hot, hold, the segment state,
\* has_audio and the sink as they were and prints nothing.
C6_EmptyFrameSkipped ==
    [][(FrameStep /\ ev'.n = 0)
          => /\ UNCHANGED <<hot, hold, segment_active, segment_has_audio>>
             /\ UNCHANGED recognizer
             /\ ~ev'.fired /\ ~ev'.fed /\ ~ev'.flushed
             /\ ev'.result = "none"]_vars

C6_Witness ==
    ev.n = 0 /\ hot > 0 /\ hold > 0 /\ segment_active /\ segment_has_audio

\* C7 (as stated): with the sink disabled, a frame that is speech-like or
\* arrives with hold still positive leaves the machine Active with
\* has_audio set.
C7_TracksWhenDisabled ==
    (~transcription_enabled /\ ev.n > 0
       /\ (ev.level > trigger_dbfs \/ hold > 0))
        => (segment_active /\ segment_has_audio)

\* C8: the enabled decision does not change once the loop runs; while it is
\* off no frame is fed, no flush is called and no result is printed, and
\* SpeechDetected fires on exactly the frames that complete a run of
\* trigger_frames speech-like frames.
C8_VadOnly ==
    [][/\ pc \in {"loop", "read", "body"}
            => transcription_enabled' = transcription_enabled
       /\ ~transcription_enabled'
            => /\ ~ev'.fed /\ ~ev'.flushed /\ ev'.result = "none"
               /\ recognizer' = "empty"
       /\ (FrameStep /\ ev'.n > 0 /\ ~transcription_enabled)
            => (ev'.fired <=> (ev'.level > trigger_dbfs
                                 /\ hot + 1 >= trigger_frames))]_vars

C8_Witness ==
    ~transcription_enabled /\ ev.fired /\ hold = release_frames - 1

\* C9 (as stated): once the interrupt has cleared g_running, no flush is
\* called and no result is printed.
C9_NoFlushAfterInterrupt ==
    [][(~g_running /\ FrameStep) => (~ev'.flushed /\ ev'.result = "none")]_vars

\* C9 (amended): after the interrupt at most one more frame is processed, the
\* one of the iteration that had already passed the loop condition (it may
\* still close its segment and flush); once the loop has exited nothing is
\* fed, flushed or printed, and a segment that is Active then stays unflushed.
C9_NoFlushAfterExit ==
    [][/\ afterInt' <= 1
       /\ Exited => UNCHANGED <<machine, recognizer, ev>>]_vars

C9_Witness ==
    /\ pc = "done"
    /\ segment_active /\ segment_has_audio /\ recognizer = "audio"
    /\ afterInt = 1

\* C10 (as stated): when the interrupt arrives while the consumer is
\* waiting in the CoreAudio read() on an empty queue, that read() returns no
\* samples (and the loop then exits without processing a frame).
C10_ReadReturnsEmptyOnInterrupt ==
    [][(intInRead /\ FrameStep) => ev'.n = 0]_vars

\* C11 (as stated): a read() call that fails is caught where it is called:
\* main leaves read() only into the loop body, never by dying on the
\* exception, and the counters and the segment state are kept.
C11_ReadFailureIsCaught ==
    [][pc = "read" => (pc' \in {"read", "body"} /\ UNCHANGED machine)]_vars

\* C12: successive CoreAudio read() calls return the queued frames in the
\* order the callback received them, each once: every read() hands main the
\* frame that was queued before all the frames it leaves in pending_, and
\* removes exactly that frame.
C12_ReadsInArrivalOrder ==
    [][(platform = "apple" /\ ReadStep /\ nread' > 0)
          => /\ buffer' = pending_[1]
             /\ Len(pending_') = Len(pending_) - 1
             /\ \A i \in 1..Len(pending_') :
                   /\ pending_'[i] = pending_[i + 1]
                   /\ pendingAge[1] > pendingAge'[i]]_vars

C12_Witness ==
    /\ platform = "apple"
    /\ pc = "body"
    /\ nread > 0
    /\ Len(pending_) = MaxPending
    /\ pendingAge[1] > pendingAge[MaxPending]
    /\ buffer # pending_[1]
    /\ pending_[1] # pending_[MaxPending]

\* C13 (as stated): every non-empty buffer handed to the callback after
\* AudioQueueStart is placed in pending_.
C13_NoFrameDropped ==
    ~dropped

\* C14: a flush() that directly follows another flush() returns the empty
\* text, whatever the first one returned; on an unavailable sink feed() and
\* flush() change nothing and every flush() returns the empty text.
C14_FlushIdempotent ==
    /\ \A i \in 2..Len(calls) :
          (calls[i].op = "flush" /\ calls[i - 1].op = "flush")
              => calls[i].text = ""
    /\ ~ready => /\ recognizer = "empty"
                 /\ \A i \in 1..Len(calls) : calls[i].text = ""

C14_Witness ==
    \E i \in 2..Len(calls) :
        /\ calls[i - 1] = [op |-> "flush", text |-> "hello"]
        /\ calls[i] = [op |-> "flush", text |-> ""]

\* C15: when capture.start() throws, main returns 1 and has not constructed
\* the sink, read a frame or printed a VAD or transcription line; main
\* returns 1 in no other case, and a session whose capture started returns 0
\* when its loop exits.
C15_StartFailureIsFatal ==
    /\ startFailed =>
          /\ pc = "exit1" /\ exit_code = StartFailureCode
          /\ ~sinkBuilt /\ ~ready
          /\ ev = NoEvent /\ nread = 0 /\ buffer = EmptyFrame /\ ~everFired
          /\ recognizer = "empty"
          /\ hot = 0 /\ hold = 0 /\ ~segment_active /\ ~segment_has_audio
    /\ exit_code = StartFailureCode => startFailed
    /\ pc = "done" => (~startFailed /\ exit_code = CleanExitCode)
    /\ exit_code = CleanExitCode => pc = "done"

C15_Witness ==
    startFailed /\ pc = "exit1" /\ exit_code = StartFailureCode /\ ~g_running

\* C16: on a non-empty frame on which SpeechDetected does not fire, hold goes
\* down by exactly 1 when it was positive and stays 0 otherwise; on a firing
\* frame it is re-armed and decremented in the same frame, ending at
\* release_frames - 1; hold changes on no other step, so it rises only on a
\* firing frame.
C16_HoldCountsDown ==
    [][/\ (FrameStep /\ ev'.n > 0 /\ ~ev'.fired)
            => hold' = IF hold > 0 THEN hold - 1 ELSE 0
       /\ (FrameStep /\ ev'.n > 0 /\ ev'.fired)
            => (ev'.armed = release_frames /\ hold' = release_frames - 1)
       /\ ~(FrameStep /\ ev'.n > 0) => hold' = hold
       /\ hold' > hold => (FrameStep /\ ev'.fired)]_vars

C16_Witness ==
    /\ ev.n > 0 /\ ~ev.fired /\ ev.level > trigger_dbfs
    /\ hold = 0 /\ ev.armed = 1 /\ hot > 0

\* A frame of n >= 1 samples that are all v.
AllSamples(x, v) == \A i \in 1..Len(x) : x[i] = v
Near(a, b) == a - b \in -100..100

\* C17 (amended): a frame whose samples are all -32768 measures RMS 32768.0
\* and a level within 0.1 dB of 0 dBFS and is speech-like; an all-zero frame
\* and the empty frame measure RMS 0.0 and a level within 0.1 dB of
\* 20*log10(1e-9/32768) = -270.3 dBFS and are not speech-like.
C17_ReferenceLevels ==
    pc = "measured" =>
        /\ (meterIn # <<>> /\ AllSamples(meterIn, -32768))
               => /\ meterOut.rms = 32768000
                  /\ Near(meterOut.level, 0)
                  /\ meterOut.speech
        /\ AllSamples(meterIn, 0)
               => /\ meterOut.rms = 0
                  /\ Near(meterOut.level, -270309)
                  /\ ~meterOut.speech

\* C17 as stated: the silent frames measure about -150.3 dBFS.
C17_SilenceFloorAsStated ==
    (pc = "measured" /\ AllSamples(meterIn, 0))
        => Near(meterOut.level, -150300)

C17_Witness ==
    /\ pc = "measured"
    /\ Len(meterIn) = MaxMeterLen
    /\ AllSamples(meterIn, 0)
    /\ meterOut.rms = 0
    /\ ~meterOut.speech

\* C18: in an unbroken run of speech-like frames that starts from hot = 0,
\* SpeechDetected fires on the frames whose position in the run is a
\* multiple of trigger_frames and on no other frame, and every firing sets
\* hold to release_frames, so the frame that fires never closes its segment.
C18_FiresEveryTenth ==
    (ev.n > 0 /\ runLen >= 0) =>
        /\ ev.fired <=> (runLen > 0 /\ runLen % trigger_frames = 0)
        /\ ev.fired => /\ ev.armed = release_frames
                       /\ hold = release_frames - 1
                       /\ ~ev.closed

C18_Witness ==
    /\ runLen = 2 * trigger_frames
    /\ ev.fired
    /\ ev.armed = release_frames
    /\ segment_active

\* C19: the loop never requests an empty flush: whenever a frame makes the
\* loop call flush(), feed() has been called since the previous flush() (or
\* since the start of the session) and the recognizer holds that audio.
C19_NoEmptyFlush ==
    [][(FrameStep /\ ev'.flushed)
          => /\ fedSinceFlush \/ ev'.fed
             /\ recognizer = "audio"
             /\ segment_has_audio]_vars

C19_Witness ==
    /\ ev.flushed
    /\ ~fedSinceFlush
    /\ recognizer = "empty"

\* C20: with the sink enabled, a non-empty frame is fed exactly when it is
\* speech-like or hold is still positive after the decrement; a frame that is
\* not fed leaves the segment Idle and closes it exactly when it was Active;
\* no frame is both fed and closes or flushes a segment, and a speech-like
\* frame never closes one.
C20_FeedXorClose ==
    [][(FrameStep /\ transcription_enabled /\ ev'.n > 0)
          => /\ ev'.fed <=> (ev'.level > trigger_dbfs \/ hold' > 0)
             /\ ~ev'.fed => /\ ~segment_active'
                            /\ ev'.closed <=> segment_active
             /\ ev'.fed => /\ ~ev'.closed
                           /\ ~ev'.flushed
                           /\ segment_active'
             /\ ev'.level > trigger_dbfs => ~ev'.closed
             /\ ev'.flushed => ev'.closed]_vars

C20_Witness ==
    /\ transcription_enabled
    /\ ev.n > 0
    /\ ev.closed
    /\ ev.flushed
    /\ ~ev.fed
    /\ ev.level <= trigger_dbfs
    /\ hold = 0

\* C21: segment_active and segment_has_audio are equal at every frame
\* boundary, so no state is Active with has_audio false, and with the sink
\* enabled every frame that closes a segment also flushes it.
C21_ActiveIffHasAudio ==
    /\ segment_active = segment_has_audio
    /\ (ev.closed /\ transcription_enabled) => ev.flushed

C21_Witness ==
    /\ pc = "loop"
    /\ ev.fed
    /\ segment_active
    /\ segment_has_audio
    /\ everFired

\* C22: after every processed frame hot is within 0..trigger_frames-1 and
\* hold within 0..release_frames-1.
C22_CountersBounded ==
    /\ hot >= 0 /\ hot <= trigger_frames - 1
    /\ hold >= 0 /\ hold <= release_frames - 1

C22_Witness ==
    /\ ev.fired
    /\ hot = 0
    /\ hold = release_frames - 1
    /\ runLen = trigger_frames
====
